---- MODULE Spec2Model ----
(***************************************************************************)
(* A model of the typed identifier helpers of frontend/src/core/model/     *)
(* ids.ts (CellId, HTMLCellId) and of the add-database dialog              *)
(* (AddDatabaseDialog, AddDatabaseDialogContent, AddDatabaseForm).         *)
(*                                                                         *)
(* JavaScript strings are modelled as sequences of one-character strings,  *)
(* so that template concatenation, String.prototype.slice and              *)
(* Number.prototype.toString are computed character by character.          *)
(***************************************************************************)
EXTENDS Naturals, Sequences, FiniteSets

VARIABLES
    counter,            \* ids.ts: the module-level `let counter`
    minted,             \* history: identifiers returned by CellId.create() since the last reset
    retired,            \* history: identifiers returned by CellId.create() before the last reset
    resets,             \* history: number of CellId.reset() calls so far
    call,               \* the last call of the ids.ts API: [op, arg, ret]
    document,           \* the rendered elements: one chain, innermost element first
    open,               \* AddDatabaseDialog: useState(false)
    selectedSchema,     \* AddDatabaseForm: useState<z.ZodType | null>(null)
    isValid,            \* DatabaseForm: form.formState.isValid
    lastFocusedCellId,  \* value of the useLastFocusedCellId() hook
    preferredConnection,\* value of preferredConnectionAtom
    trace,              \* calls made by the last run of AddDatabaseDialogContent's onSubmit
    createCalls,        \* history: number of createNewCell requests so far
    closeCalls,         \* history: number of onClose calls so far
    submits,            \* history: number of valid form submissions so far
    ui                  \* the last user-interface event of the dialog

idVars == <<counter, minted, retired, resets, call, document>>
dialogVars == <<open, selectedSchema, isValid, lastFocusedCellId, preferredConnection,
                trace, createCalls, closeCalls, submits, ui>>
vars == <<idVars, dialogVars>>

(***************************************************************************)
(* Bounds of the model.                                                    *)
(***************************************************************************)
MaxCreates == 12   \* create() calls between two resets
MaxResets == 2     \* reset() calls in a run
MaxDepth == 4      \* elements on the path from the innermost element to the root
MaxSubmits == 2    \* valid submissions of the add-database form in a run

(***************************************************************************)
(* Strings.                                                                *)
(***************************************************************************)
Digits == <<"0", "1", "2", "3", "4", "5", "6", "7", "8", "9">>

\* String.prototype.slice(start) for 0 <= start: the characters from index
\* start (zero-based) to the end; the empty string when start >= length.
Slice(s, start) == SubSeq(s, start + 1, Len(s))

\* A plausible bug of the conversion: only the last digit is kept.
ToStringLastDigit(n) == <<Digits[(n % 10) + 1]>>

\* Number.prototype.toString() of a non-negative integer: its decimal digits,
\* most significant first, "0" for zero, no leading zeros.
RECURSIVE ToString(_)
ToString(n) ==
    IF n < 10 THEN <<Digits[n + 1]>>
    ELSE ToString(n \div 10) \o <<Digits[(n % 10) + 1]>>

Range(s) == {s[i] : i \in 1..Len(s)}

(***************************************************************************)
(* ids.ts: CellId.                                                         *)
(***************************************************************************)
\* let counter = 0;
InitialCounter == 0

\* Plausible bugs of create(): the counter is not advanced; it is advanced by
\* two; it is advanced before it is read (++counter).
CellId_createStuck(c) == [ret |-> ToString(c), counter |-> c]
CellId_createSkip(c) == [ret |-> ToString(c), counter |-> c + 2]
CellId_createPreIncrement(c) == [ret |-> ToString(c + 1), counter |-> c + 1]

\* create(): const next = counter++; return next.toString();
\* The value returned and the counter afterwards, for the counter c before.
CellId_create(c) == [ret |-> ToString(c), counter |-> c + 1]

\* A plausible bug of reset(): identifiers restart at one.
CellId_resetOne(c) == 1

\* reset(): counter = 0; the counter afterwards, for the counter c before.
CellId_reset(c) == 0

(***************************************************************************)
(* ids.ts: HTMLCellId.                                                     *)
(***************************************************************************)
\* type HTMLCellId = `cell-${CellId}`
TypePrefix == <<"c", "e", "l", "l", "-">>

\* Plausible bugs of HTMLCellId.create: another separator; the prefix is repeated.
HTMLCellId_createUnderscore(cellId) == <<"c", "e", "l", "l", "_">> \o cellId
HTMLCellId_createTwice(cellId) ==
    <<"c", "e", "l", "l", "-">> \o <<"c", "e", "l", "l", "-">> \o cellId

\* create(cellId): return `cell-${cellId}`
HTMLCellId_create(cellId) == <<"c", "e", "l", "l", "-">> \o cellId

\* Plausible bugs of HTMLCellId.parse: an off-by-one slice, either way.
HTMLCellId_parseFour(htmlCellId) == Slice(htmlCellId, 4)
HTMLCellId_parseSix(htmlCellId) == Slice(htmlCellId, 6)

\* parse(htmlCellId): return htmlCellId.slice(5)
HTMLCellId_parse(htmlCellId) == Slice(htmlCellId, 5)

\* The attribute selector [id^="cell-"]: the id attribute is present and
\* begins with cell- (an absent attribute is the empty sequence here).
IdBeginsWithCell(id) ==
    /\ Len(id) >= 5
    /\ SubSeq(id, 1, 5) = <<"c", "e", "l", "l", "-">>

\* A plausible bug of the selector: the element type is not required.
SelectorMatchesAnyTag(el) == IdBeginsWithCell(el.id)

\* The selector div[id^="cell-"] on one element.
SelectorMatches(el) == el.tag = "div" /\ IdBeginsWithCell(el.id)

\* Element.closest(selector) in a chain of elements where the parent of
\* element i is element i + 1 and the last element is the root: the first
\* element, from i upwards, that the selector matches; 0 stands for null.
RECURSIVE Closest(_, _)
Closest(chain, i) ==
    IF i > Len(chain) THEN 0
    ELSE IF SelectorMatches(chain[i]) THEN i
    ELSE Closest(chain, i + 1)

\* A plausible bug of findElement: the search starts at the parent.
HTMLCellId_findElementFromParent(chain, element) == Closest(chain, element + 1)

\* findElement(element): return element.closest('div[id^="cell-"]')
HTMLCellId_findElement(chain, element) == Closest(chain, element)

(***************************************************************************)
(* Inputs.                                                                 *)
(***************************************************************************)
NoArg == <<>>

\* Cell identifiers that no create() call returned.
OtherCellIds == { <<>>, <<"a", "b">>, <<"c", "e", "l", "l", "-">>, <<"0", "7">> }

\* Every identifier create() has returned in this run.
Produced == Range(minted) \cup retired

CellIds == Produced \cup OtherCellIds

\* Strings of the HTMLCellId type, and strings that are not.
WellFormed(x) == Len(x) >= Len(TypePrefix) /\ SubSeq(x, 1, Len(TypePrefix)) = TypePrefix
WellFormedAnchors == {TypePrefix \o c : c \in CellIds}
MalformedAnchors ==
    { <<>>, <<"c", "e", "l", "l">>, <<"c", "e", "l", "l", "_", "7">>,
      <<"x", "c", "e", "l", "l", "-", "1">> }

\* Elements of a document: a tag and an id attribute (<<>> when absent).
Tags == {"div", "span"}
ElementIds ==
    { <<>>, <<"c", "e", "l", "l", "-", "2">>, <<"c", "e", "l", "l">>,
      <<"x", "c", "e", "l", "l", "-", "2">> }
Elements == [tag : Tags, id : ElementIds]
Chains(depth) == UNION {[1..n -> Elements] : n \in 1..depth}

\* A rendered cell: a span in a div in the cell's container.
SampleDocument ==
    << [tag |-> "span", id |-> <<>>],
       [tag |-> "div", id |-> <<>>],
       [tag |-> "div", id |-> <<"c", "e", "l", "l", "-", "2">>] >>

(***************************************************************************)
(* The operations of ids.ts as actions.                                    *)
(***************************************************************************)
InitIds ==
    /\ counter = InitialCounter
    /\ minted = <<>>
    /\ retired = {}
    /\ resets = 0
    /\ call = [op |-> "none", arg |-> NoArg, ret |-> NoArg]

Create ==
    /\ Len(minted) < MaxCreates
    /\ LET r == CellId_create(counter) IN
        /\ counter' = r.counter
        /\ minted' = Append(minted, r.ret)
        /\ call' = [op |-> "CellId.create", arg |-> NoArg, ret |-> r.ret]
    /\ UNCHANGED <<retired, resets, document>>

Reset ==
    /\ resets < MaxResets
    /\ counter' = CellId_reset(counter)
    /\ minted' = <<>>
    /\ retired' = retired \cup Range(minted)
    /\ resets' = resets + 1
    /\ call' = [op |-> "CellId.reset", arg |-> NoArg, ret |-> NoArg]
    /\ UNCHANGED document

HTMLCreate ==
    \E c \in CellIds :
        /\ call' = [op |-> "HTMLCellId.create", arg |-> c, ret |-> HTMLCellId_create(c)]
        /\ UNCHANGED <<counter, minted, retired, resets, document>>

HTMLParse ==
    \E x \in WellFormedAnchors \cup MalformedAnchors :
        /\ call' = [op |-> "HTMLCellId.parse", arg |-> x, ret |-> HTMLCellId_parse(x)]
        /\ UNCHANGED <<counter, minted, retired, resets, document>>

FindElement ==
    \E element \in 1..Len(document) :
        /\ call' = [op |-> "HTMLCellId.findElement", arg |-> element,
                    ret |-> HTMLCellId_findElement(document, element)]
        /\ UNCHANGED <<counter, minted, retired, resets, document>>

(***************************************************************************)
(* The add-database dialog.  A value that may be null is a set with at     *)
(* most one element: {} is null.                                           *)
(***************************************************************************)
Null == {}
Some(v) == {v}
Get(o) == CHOOSE v \in o : TRUE

\* The names of SCHEMAS; a schema is identified by its name.
SCHEMAS == {"PostgreSQL", "MySQL", "SQLite", "DuckDB", "Snowflake", "BigQuery"}

\* ConnectionLibrary: "sqlalchemy" is the default of preferredConnectionAtom;
\* "sqlmodel" stands for the other keys of ConnectionDisplayNames.
DefaultConnection == "sqlalchemy"
ConnectionLibraries == {"sqlalchemy", "sqlmodel"}

\* The cells the user may have focused last.
FocusableCells == {<<"0">>, <<"1">>}
END == <<"_", "_", "e", "n", "d", "_", "_">>

\* generateDatabaseCode(values, preferredConnection) is kept uninterpreted:
\* the code it returns is identified by its two arguments.
generateDatabaseCode(values, library) == [values |-> values, library |-> library]

\* Plausible bugs of handleInsertCode: the cell goes before the focused one;
\* an unfocused notebook gets no position.
handleInsertCodeBefore(code, focused) ==
    <<[fn |-> "createNewCell", code |-> code, before |-> TRUE,
       cellId |-> IF focused = Null THEN END ELSE Get(focused),
       skipIfCodeExists |-> TRUE, autoFocus |-> TRUE]>>

\* handleInsertCode(code): the calls it makes, with lastFocusedCellId = focused.
handleInsertCode(code, focused) ==
    <<[fn |-> "createNewCell", code |-> code, before |-> FALSE,
       cellId |-> IF focused = Null THEN END ELSE Get(focused),
       skipIfCodeExists |-> TRUE, autoFocus |-> TRUE]>>

OnCloseCall == [fn |-> "onClose"]

\* Plausible bugs of onSubmit: the dialog is closed first; the dialog is
\* closed and nothing is inserted; the code is inserted twice.
onSubmitCloseFirst(values, focused, library) ==
    <<OnCloseCall>> \o handleInsertCode(generateDatabaseCode(values, library), focused)
onSubmitCloseOnly(values, focused, library) == <<OnCloseCall>>

\* onSubmit(values) of AddDatabaseDialogContent: the calls it makes, in order.
onSubmit(values, focused, library) ==
    handleInsertCode(generateDatabaseCode(values, library), focused) \o <<OnCloseCall>>

Count(calls, fn) == Cardinality({i \in 1..Len(calls) : calls[i].fn = fn})

InitDialog ==
    /\ open = FALSE
    /\ selectedSchema = Null
    /\ isValid = FALSE
    /\ lastFocusedCellId = Null
    /\ preferredConnection = DefaultConnection
    /\ trace = <<>>
    /\ createCalls = 0
    /\ closeCalls = 0
    /\ submits = 0
    /\ ui = "none"

\* What the event leaves alone of the history of calls.
NoCalls == UNCHANGED <<trace, createCalls, closeCalls, submits>>

\* DialogTrigger: the closed dialog is opened through onOpenChange={setOpen}.
\* AddDatabaseForm is mounted with the content: useState(null).
Trigger ==
    /\ ~open
    /\ open' = TRUE
    /\ selectedSchema' = Null
    /\ isValid' = FALSE
    /\ ui' = "trigger"
    /\ NoCalls
    /\ UNCHANGED <<lastFocusedCellId, preferredConnection>>

\* Escape, the close button or a click outside: onOpenChange(false).
Dismiss ==
    /\ open
    /\ open' = FALSE
    /\ ui' = "dismiss"
    /\ NoCalls
    /\ UNCHANGED <<selectedSchema, isValid, lastFocusedCellId, preferredConnection>>

\* DatabaseSchemaSelector: onClick={() => onSelect(schema)}, shown while no
\* schema is selected; the form starts from the schema's defaults, which
\* may or may not validate.
SelectSchema ==
    /\ open
    /\ selectedSchema = Null
    /\ \E schema \in SCHEMAS : selectedSchema' = Some(schema)
    /\ isValid' \in BOOLEAN
    /\ ui' = "select"
    /\ NoCalls
    /\ UNCHANGED <<open, lastFocusedCellId, preferredConnection>>

\* The Back button of DatabaseForm: onBack={() => setSelectedSchema(null)}.
Back ==
    /\ open
    /\ selectedSchema # Null
    /\ selectedSchema' = Null
    /\ isValid' = FALSE
    /\ ui' = "back"
    /\ NoCalls
    /\ UNCHANGED <<open, lastFocusedCellId, preferredConnection>>

\* The user edits a field: the resolver revalidates (reValidateMode onChange).
Edit ==
    /\ open
    /\ selectedSchema # Null
    /\ isValid' \in BOOLEAN
    /\ ui' = "edit"
    /\ NoCalls
    /\ UNCHANGED <<open, selectedSchema, lastFocusedCellId, preferredConnection>>

\* The library select: onValueChange sets preferredConnectionAtom.
SetPreferredConnection ==
    /\ open
    /\ selectedSchema # Null
    /\ \E value \in ConnectionLibraries : preferredConnection' = value
    /\ ui' = "library"
    /\ NoCalls
    /\ UNCHANGED <<open, selectedSchema, isValid, lastFocusedCellId>>

\* Another cell of the notebook is focused while the dialog is closed.
Focus ==
    /\ ~open
    /\ \E c \in FocusableCells : lastFocusedCellId' = Some(c)
    /\ ui' = "focus"
    /\ NoCalls
    /\ UNCHANGED <<open, selectedSchema, isValid, preferredConnection>>

\* The form is submitted with values the resolver accepts:
\* form.handleSubmit(onSubmit) calls onSubmit(values); onClose is
\* () => setOpen(false) in AddDatabaseDialog.
Submit ==
    /\ open
    /\ selectedSchema # Null
    /\ isValid
    /\ submits < MaxSubmits
    /\ LET calls == onSubmit(Get(selectedSchema), lastFocusedCellId, preferredConnection) IN
        /\ trace' = calls
        /\ createCalls' = createCalls + Count(calls, "createNewCell")
        /\ closeCalls' = closeCalls + Count(calls, "onClose")
        /\ open' = IF Count(calls, "onClose") > 0 THEN FALSE ELSE open
    /\ submits' = submits + 1
    /\ ui' = "submit"
    /\ UNCHANGED <<selectedSchema, isValid, lastFocusedCellId, preferredConnection>>

\* The form is submitted with values the resolver rejects: handleSubmit
\* does not call onSubmit.
SubmitInvalid ==
    /\ open
    /\ selectedSchema # Null
    /\ ~isValid
    /\ ui' = "rejected"
    /\ NoCalls
    /\ UNCHANGED <<open, selectedSchema, isValid, lastFocusedCellId, preferredConnection>>

(***************************************************************************)
(* Specifications.                                                         *)
(***************************************************************************)
Init == InitIds /\ document = SampleDocument /\ InitDialog

\* The registry and the identifier transforms, interleaved freely.
Next ==
    \/ Create /\ UNCHANGED dialogVars
    \/ Reset /\ UNCHANGED dialogVars
    \/ HTMLCreate /\ UNCHANGED dialogVars
    \/ HTMLParse /\ UNCHANGED dialogVars
    \/ FindElement /\ UNCHANGED dialogVars

Spec == Init /\ [][Next]_vars

\* findElement on every element of every document of the bound.
InitDom == InitIds /\ document \in Chains(MaxDepth) /\ InitDialog

NextDom == FindElement /\ UNCHANGED dialogVars

SpecDom == InitDom /\ [][NextDom]_vars

\* The add-database dialog.
NextDialog ==
    \/ Trigger /\ UNCHANGED idVars
    \/ Dismiss /\ UNCHANGED idVars
    \/ SelectSchema /\ UNCHANGED idVars
    \/ Back /\ UNCHANGED idVars
    \/ Edit /\ UNCHANGED idVars
    \/ SetPreferredConnection /\ UNCHANGED idVars
    \/ Focus /\ UNCHANGED idVars
    \/ Submit /\ UNCHANGED idVars
    \/ SubmitInvalid /\ UNCHANGED idVars

SpecDialog == Init /\ [][NextDialog]_vars

(***************************************************************************)
(* Properties of the registry (CellId).                                    *)
(***************************************************************************)
Distinct(s) == \A i, j \in 1..Len(s) : i # j => s[i] # s[j]

\* C1: the identifiers returned by the create() calls made since the last
\* reset() are pairwise distinct, whatever HTMLCellId operations were
\* interleaved with them.
C1_DistinctSinceReset == Distinct(minted)

\* C1: eleven identifiers were minted after a reset.
C1_Witness == resets >= 1 /\ Len(minted) >= 11 /\ call.op = "CellId.create"

\* C2 as claimed: an identifier create() returned is never returned again,
\* also not after a reset().
C2_NeverReusedAcrossResets ==
    /\ Distinct(minted)
    /\ \A i \in 1..Len(minted) : minted[i] \notin retired

\* C2 as amended: create() never returns an identifier that it already
\* returned since the last reset(); an identifier comes back only with a
\* reset() between the two calls.
C2_NeverReusedWithoutReset ==
    [][Len(minted') = Len(minted) + 1 => call'.ret \notin Range(minted)]_vars

\* C2: after a reset, create() has returned an identifier of before the reset.
C2_Witness ==
    /\ call.op = "CellId.create"
    /\ call.ret \in retired
    /\ Len(minted) >= 2

\* The identifiers a never-used registry returns for n calls of create().
RECURSIVE FreshRunFrom(_, _)
FreshRunFrom(c, n) ==
    IF n = 0 THEN <<>>
    ELSE LET r == CellId_create(c) IN <<r.ret>> \o FreshRunFrom(r.counter, n - 1)

FreshRun(n) == FreshRunFrom(InitialCounter, n)

\* C3: after a reset(), whatever was minted before it, the identifiers
\* returned by the next N create() calls are those a never-used registry
\* returns for N create() calls.
C3_ResetReproducesFreshRun == resets >= 1 => minted = FreshRun(Len(minted))

\* C3: a second reset after earlier mints, then three create() calls.
C3_Witness == resets = 2 /\ Cardinality(retired) >= 5 /\ Len(minted) = 3

\* The number a string of decimal digits denotes.
DigitValue(ch) == CHOOSE d \in 0..9 : Digits[d + 1] = ch

RECURSIVE DecimalValue(_)
DecimalValue(s) ==
    IF Len(s) = 0 THEN 0
    ELSE 10 * DecimalValue(SubSeq(s, 1, Len(s) - 1)) + DigitValue(s[Len(s)])

IsDecimal(s) ==
    /\ Len(s) >= 1
    /\ \A i \in 1..Len(s) : \E d \in 0..9 : Digits[d + 1] = s[i]
    /\ Len(s) > 1 => s[1] # "0"

\* C8: the k-th create() since the last reset() returns the decimal text of
\* k - 1: "0", "1", "2" for the first three, in increasing numeric order.
C8_SequentialDecimal ==
    /\ \A k \in 1..Len(minted) : IsDecimal(minted[k]) /\ DecimalValue(minted[k]) = k - 1
    /\ Len(minted) >= 3 => SubSeq(minted, 1, 3) = << <<"0">>, <<"1">>, <<"2">> >>

\* C8: reset, then twelve identifiers, the last ones of two digits.
C8_Witness ==
    /\ resets >= 1
    /\ Len(minted) >= 12
    /\ minted[11] = <<"1", "0">>
    /\ minted[12] = <<"1", "1">>

\* C9: create() advances the counter by exactly one, reset() sets it to its
\* initial value, and HTMLCellId.create, parse and findElement leave it as
\* it is.
C9_CounterFrame ==
    [][ /\ call'.op = "CellId.create" => counter' = counter + 1
        /\ call'.op = "CellId.reset" => counter' = InitialCounter
        /\ call'.op \in {"HTMLCellId.create", "HTMLCellId.parse", "HTMLCellId.findElement"}
              => counter' = counter ]_vars

\* C9: findElement was called between two create() calls.
C9_Witness ==
    /\ call.op = "HTMLCellId.findElement"
    /\ counter = 3
    /\ Len(minted) = 3

(***************************************************************************)
(* Properties of the identifier transforms (HTMLCellId).                   *)
(***************************************************************************)
\* C4: for an identifier c that create() returned,
\* HTMLCellId.parse(HTMLCellId.create(c)) is c.
C4_ParseAfterCreate ==
    (call.op = "HTMLCellId.create" /\ call.arg \in Produced)
        => HTMLCellId_parse(call.ret) = call.arg

\* C4: HTMLCellId.create was applied to a minted identifier of two digits.
C4_Witness ==
    /\ call.op = "HTMLCellId.create"
    /\ call.arg \in Produced
    /\ Len(call.arg) = 2

\* C5: for a well-formed anchor x (cell- followed by a cell identifier),
\* HTMLCellId.create(HTMLCellId.parse(x)) is x.
C5_CreateAfterParse ==
    (call.op = "HTMLCellId.parse" /\ WellFormed(call.arg))
        => HTMLCellId_create(call.ret) = call.arg

\* C5: HTMLCellId.parse was applied to cell-10 and returned 10.
C5_Witness ==
    /\ call.op = "HTMLCellId.parse"
    /\ call.arg = <<"c", "e", "l", "l", "-", "1", "0">>
    /\ call.ret = <<"1", "0">>

\* C6: HTMLCellId.create(c) is the five characters cell- followed by the
\* characters of c and nothing else.
C6_PrefixThenId ==
    call.op = "HTMLCellId.create" =>
        /\ Len(call.ret) = 5 + Len(call.arg)
        /\ call.ret[1] = "c" /\ call.ret[2] = "e" /\ call.ret[3] = "l"
        /\ call.ret[4] = "l" /\ call.ret[5] = "-"
        /\ \A i \in 1..Len(call.arg) : call.ret[5 + i] = call.arg[i]

\* C6: HTMLCellId.create was applied to "0" and returned "cell-0".
C6_Witness ==
    /\ call.op = "HTMLCellId.create"
    /\ call.arg = <<"0">>
    /\ call.ret = <<"c", "e", "l", "l", "-", "0">>

Min(S) == CHOOSE m \in S : \A n \in S : m <= n

\* The element and its ancestors with an id of the anchor format.
AnchorsFrom(element) ==
    {j \in element..Len(document) : WellFormed(document[j].id)}

\* The div elements among them.
DivAnchorsFrom(element) ==
    {j \in AnchorsFrom(element) : document[j].tag = "div"}

\* C7 as claimed: findElement returns the nearest of the element and its
\* ancestors whose id has the anchor format, of whatever kind that element
\* is, and null when there is none.
C7_NearestAnchorOfAnyKind ==
    call.op = "HTMLCellId.findElement" =>
        call.ret = IF AnchorsFrom(call.arg) = {} THEN 0 ELSE Min(AnchorsFrom(call.arg))

\* C7 as amended: findElement returns the nearest of the element and its
\* ancestors that is a div whose id begins with cell-, and null when there
\* is none.
C7_NearestDivAnchor ==
    call.op = "HTMLCellId.findElement" =>
        call.ret = IF DivAnchorsFrom(call.arg) = {} THEN 0
                   ELSE Min(DivAnchorsFrom(call.arg))

\* C7: an element three levels inside the div cell-2, below a span whose id
\* has the anchor format too, yields the div.
C7_Witness ==
    /\ call.op = "HTMLCellId.findElement"
    /\ Len(document) = 4
    /\ call.arg = 1
    /\ call.ret = 4
    /\ document[4] = [tag |-> "div", id |-> <<"c", "e", "l", "l", "-", "2">>]
    /\ document[2] = [tag |-> "span", id |-> <<"c", "e", "l", "l", "-", "2">>]

(***************************************************************************)
(* Properties of the add-database dialog.                                  *)
(***************************************************************************)
\* One createNewCell request and one onClose per submission, in that order.
C10_Calls ==
    /\ createCalls = submits
    /\ closeCalls = submits
    /\ submits > 0 =>
          /\ Len(trace) = 2
          /\ trace[1].fn = "createNewCell"
          /\ trace[1].before = FALSE
          /\ trace[1].skipIfCodeExists = TRUE
          /\ trace[2].fn = "onClose"

C10_Steps ==
    [][ /\ ui' = "submit" =>
              /\ createCalls' = createCalls + 1
              /\ trace'[1].fn = "createNewCell"
              /\ trace'[1].cellId =
                     IF lastFocusedCellId = Null THEN END ELSE Get(lastFocusedCellId)
              /\ ~open'
        /\ ui' \in {"back", "select"} =>
              /\ createCalls' = createCalls
              /\ closeCalls' = closeCalls
              /\ open' = open
        /\ (~open /\ open') => ui' = "trigger" ]_vars

\* C10: a valid submission makes exactly one createNewCell request (after
\* the last focused cell, or at __end__; before = false, skipIfCodeExists =
\* true) and then closes the dialog, which stays closed until the trigger
\* opens it; Back and the choice of a schema make no request and close
\* nothing.
C10_SubmitInsertsThenCloses == []C10_Calls /\ C10_Steps

\* C10: a second submission, after a cell was focused.
C10_Witness ==
    /\ ui = "submit"
    /\ submits = 2
    /\ ~open
    /\ trace[1].cellId = <<"1">>

====
